---- MODULE Spec2Model ----
(***************************************************************************)
(* Model of iseg_monitor/util/datachecker.py: the debug dumper             *)
(* show_tables, the loader load_measurements (catalog read, current and    *)
(* voltage extraction, time conversion), the plotter plot_all (grouping by *)
(* det_id, decimation, label lookup, hand-off to the figure) and main.     *)
(*                                                                         *)
(* Spec     : one run of main(), or one direct call of load_measurements,  *)
(*            against every store content within the bounds.               *)
(* SpecPlot : one direct call of plot_all with arbitrary arguments.        *)
(***************************************************************************)
EXTENDS Integers, Sequences, FiniteSets, TLC

VARIABLES
    store,      \* the sqlite file: openable?, and its three tables
    entry,      \* the function that was called: main, load_measurements or plot_all
    pc,         \* position of the run in the code
    held,       \* connections currently checked out (inside a `with` block)
    opened,     \* connections acquired so far
    dump,       \* what show_tables printed, one entry per table
    det_map,    \* load_measurements' local det_map (unbound before line 61)
    current,    \* load_measurements' local current (unbound before line 63)
    voltage,    \* load_measurements' local voltage (unbound before line 71)
    queries,    \* the statements load_measurements sent to the store, in order
    ret,        \* the tuple load_measurements returned to its caller (unbound until line 82)
    error,      \* the exception that left the run (unbound while none did)
    plotargs,   \* plot_all's arguments (unbound until it is called)
    fig,        \* the traces added to the figure so far
    shown,      \* what fig.show() handed to the renderer (unbound until line 135)
    steps       \* the pipeline steps that completed, in order

vars == <<store, entry, pc, held, opened, dump, det_map, current, voltage,
          queries, ret, error, plotargs, fig, shown, steps>>

-----------------------------------------------------------------------------
(* Bounds of the model *)

MaxDet == 2         \* rows of the detector table
MaxRows == 2        \* rows of the current table
MaxVRows == 1       \* rows of the voltage table
MaxStride == 2      \* largest -d value
MaxFrame == 3       \* rows of the current frame handed to plot_all directly

(* Program constants *)

Number == 10        \* default of -n, the LIMIT of show_tables

-----------------------------------------------------------------------------
(* Values *)

Unbound == <<>>                 \* a name not assigned yet / a table that does not exist
Bound(v) == <<v>>
IsBound(o) == Len(o) = 1
Val(o) == o[1]

Range(s) == {s[i] : i \in 1..Len(s)}
SeqsUpTo(S, n) == UNION {[1..k -> S] : k \in 0..n}

DetIds == {1, 2}
Names == {"PMT-A", "PMT-B"}

\* detector(id, name): names are not unique, ids are not declared unique
DetRows == {<<1, "PMT-A">>, <<2, "PMT-B">>, <<2, "PMT-A">>}

\* current / voltage (det_id, value, time): time is epoch seconds
SampleRows ==
    {[det_id |-> 1, value |-> 10, time |-> 1000],
     [det_id |-> 1, value |-> 12, time |-> 1002],
     [det_id |-> 2, value |-> 5,  time |-> 1001],
     [det_id |-> 3, value |-> 99, time |-> 1003]}

Strides == {0 - 1, 0} \cup (1..MaxStride)

Tables == <<"detector", "current", "voltage">>

-----------------------------------------------------------------------------
(* The store and its queries *)

\* "SELECT * FROM t ORDER BY rowid DESC LIMIT n", printed in reversed order:
\* the last n rows of the table, in rowid order (lines 35-45)
LastN(rows, n) ==
    IF Len(rows) <= n THEN rows ELSE SubSeq(rows, Len(rows) - n + 1, Len(rows))

\* dict(fetchall()) over (id, name) rows: one entry per id, the last row of an
\* id wins (line 61)
DictOf(rows) ==
    [k \in {r[1] : r \in Range(rows)} |->
        LET last == CHOOSE i \in 1..Len(rows) :
                        /\ rows[i][1] = k
                        /\ \A j \in (i + 1)..Len(rows) : rows[j][1] # k
        IN  rows[last][2]]

\* the identifiers interpolated into the IN (...) list (lines 66, 74)
InList(d) == DOMAIN d

\* variant: the statement without its WHERE clause
SelectIn_nowhere(rows, ids) == rows

\* "SELECT det_id, value, time FROM t WHERE det_id IN (ids)": the rows of the
\* table whose det_id is listed, in the table's native row order; sqlite
\* accepts an empty list and then selects nothing (lines 63-77)
SelectIn(rows, ids) == SelectSeq(rows, LAMBDA r : r.det_id \in ids)

\* pd.to_datetime(t, unit="s"): epoch seconds to a calendar timestamp
\* (lines 79-80)
ToDatetime(t) == [day |-> t \div 86400, sec |-> t % 86400]

\* the frame with its time column converted (lines 79-80)
ConvertTimes(df) ==
    [i \in 1..Len(df) |->
        [det_id |-> df[i].det_id, value |-> df[i].value, time |-> ToDatetime(df[i].time)]]

-----------------------------------------------------------------------------
(* plot_all's frame handling *)

RECURSIVE SortedSeq(_)
\* the elements of a finite set of integers in ascending order
SortedSeq(S) ==
    IF S = {} THEN <<>>
    ELSE LET m == CHOOSE x \in S : \A y \in S : x <= y
         IN  <<m>> \o SortedSeq(S \ {m})

\* the keys groupby("det_id") iterates over: the det_ids that occur in the
\* frame, ascending (lines 103, 117)
GroupKeys(df) == SortedSeq({df[i].det_id : i \in 1..Len(df)})

\* the group of one key: its rows in the frame's row order (lines 103, 117)
Group(df, k) == SelectSeq(df, LAMBDA r : r.det_id = k)

\* variant: the slice df.iloc[1::n, :]
ILocStep_from1(df, n) ==
    [i \in 1..((Len(df) + n - 2) \div n) |-> df[(i - 1) * n + 2]]

\* df.iloc[::n, :] for n >= 1: the rows at positions 0, n, 2n, ... (lines 106, 120)
ILocStep(df, n) ==
    [i \in 1..((Len(df) + n - 1) \div n) |-> df[(i - 1) * n + 1]]

\* "if downsample > 1: df = df.iloc[::downsample, :]" (lines 105-106, 119-120)
Downsample(df, n) == IF n > 1 THEN ILocStep(df, n) ELSE df

\* variant: the name built from the id without the catalog lookup
TraceName_id(prefix, d, det_id) == prefix \o " " \o ToString(det_id)

\* f"Current {det_map.get(det_id, det_id)}": the prefix, a blank, and the
\* catalog name of det_id or, for an id that is no key, the id as str()
\* renders it (lines 111, 125)
TraceName(prefix, d, det_id) ==
    prefix \o " " \o (IF det_id \in DOMAIN d THEN d[det_id] ELSE ToString(det_id))

\* variant: the frame decimated as a whole before it is grouped
Traces_wholetable(df, d, n, prefix, row) ==
    LET keys == GroupKeys(df)
    IN  [i \in 1..Len(keys) |->
            LET g == Group(Downsample(df, n), keys[i])
            IN  [row    |-> row,
                 det_id |-> keys[i],
                 name   |-> TraceName(prefix, d, keys[i]),
                 x      |-> [j \in 1..Len(g) |-> g[j].time],
                 y      |-> [j \in 1..Len(g) |-> g[j].value]]]

\* one go.Scatter per group, added to subplot row `row` (lines 103-114, 117-128);
\* det_id records the group a trace was made of
Traces(df, d, n, prefix, row) ==
    LET keys == GroupKeys(df)
    IN  [i \in 1..Len(keys) |->
            LET g == Downsample(Group(df, keys[i]), n)
            IN  [row    |-> row,
                 det_id |-> keys[i],
                 name   |-> TraceName(prefix, d, keys[i]),
                 x      |-> [j \in 1..Len(g) |-> g[j].time],
                 y      |-> [j \in 1..Len(g) |-> g[j].value]]]

-----------------------------------------------------------------------------
(* Initial states *)

Opt(S) == {Unbound} \cup {Bound(v) : v \in S}

\* a path sqlite cannot open (engine.connect() raises): no table can be read
UnopenableStore ==
    [openable |-> FALSE, detector |-> Unbound, current |-> Unbound, voltage |-> Unbound]

\* an openable file; each of the three tables exists with some rows, or is
\* missing (a new, empty file has none of them)
OpenStores ==
    [openable : {TRUE},
     detector : Opt(SeqsUpTo(DetRows, MaxDet)),
     current  : Opt(SeqsUpTo(SampleRows, MaxRows)),
     voltage  : Opt(SeqsUpTo(SampleRows, MaxVRows))]

Stores == {UnopenableStore} \cup OpenStores

NoRun ==
    /\ held = 0
    /\ opened = 0
    /\ dump = <<>>
    /\ det_map = Unbound
    /\ current = Unbound
    /\ voltage = Unbound
    /\ queries = <<>>
    /\ ret = Unbound
    /\ error = Unbound
    /\ fig = <<>>
    /\ shown = Unbound
    /\ steps = <<>>

\* main() (line 138) or load_measurements() (line 50) is called on some store
Init ==
    /\ store \in Stores
    /\ entry \in {"main", "load_measurements"}
    /\ pc = IF entry = "main" THEN "show_connect" ELSE "lm_connect"
    /\ plotargs = Unbound
    /\ NoRun

OperationalError(at) == Bound([exc |-> "OperationalError", at |-> at])

-----------------------------------------------------------------------------
(* show_tables, lines 21-48 *)

\* line 30: engine.connect(); an exception here leaves show_tables and main
ShowConnect ==
    /\ pc = "show_connect"
    /\ \/ /\ store.openable
          /\ held' = held + 1
          /\ opened' = opened + 1
          /\ pc' = "show_dump"
          /\ UNCHANGED error
       \/ /\ ~store.openable
          /\ error' = OperationalError("connect")
          /\ pc' = "failed"
          /\ UNCHANGED <<held, opened>>
    /\ UNCHANGED <<store, entry, dump, det_map, current, voltage, queries, ret,
                   plotargs, fig, shown, steps>>

\* lines 31-48: one iteration of the loop over the three tables; a failing
\* read is caught and reported, and the loop goes on
ShowDump ==
    /\ pc = "show_dump"
    /\ Len(dump) < Len(Tables)
    /\ LET t == Tables[Len(dump) + 1]
       IN  \/ /\ IsBound(store[t])
              /\ dump' = Append(dump, [table |-> t, ok |-> TRUE,
                                       rows |-> LastN(Val(store[t]), Number)])
           \/ /\ ~IsBound(store[t])
              /\ dump' = Append(dump, [table |-> t, ok |-> FALSE, rows |-> <<>>])
    /\ UNCHANGED <<store, entry, pc, held, opened, det_map, current, voltage,
                   queries, ret, error, plotargs, fig, shown, steps>>

\* end of the with block of line 30, then main goes on to line 151
ShowExit ==
    /\ pc = "show_dump"
    /\ Len(dump) = Len(Tables)
    /\ held' = held - 1
    /\ pc' = "lm_connect"
    /\ UNCHANGED <<store, entry, opened, dump, det_map, current, voltage,
                   queries, ret, error, plotargs, fig, shown, steps>>

-----------------------------------------------------------------------------
(* load_measurements, lines 50-82 *)

\* line 59: engine.connect(); an exception here leaves load_measurements
LmConnect ==
    /\ pc = "lm_connect"
    /\ \/ /\ store.openable
          /\ held' = held + 1
          /\ opened' = opened + 1
          /\ pc' = "resolve"
          /\ UNCHANGED error
       \/ /\ ~store.openable
          /\ error' = OperationalError("connect")
          /\ pc' = "failed"
          /\ UNCHANGED <<held, opened>>
    /\ UNCHANGED <<store, entry, dump, det_map, current, voltage, queries, ret,
                   plotargs, fig, shown, steps>>

\* line 61: the catalog query; on an exception the with block releases the
\* connection and the exception leaves load_measurements
Resolve ==
    /\ pc = "resolve"
    /\ queries' = Append(queries, [table |-> "detector", where |-> Unbound])
    /\ \/ /\ IsBound(store.detector)
          /\ det_map' = Bound(DictOf(Val(store.detector)))
          /\ steps' = Append(steps, "Resolve")
          /\ pc' = "extract_current"
          /\ UNCHANGED <<held, error>>
       \/ /\ ~IsBound(store.detector)
          /\ held' = held - 1
          /\ error' = OperationalError("detector")
          /\ pc' = "failed"
          /\ UNCHANGED <<det_map, steps>>
    /\ UNCHANGED <<store, entry, opened, dump, current, voltage, ret, plotargs,
                   fig, shown>>

\* variant: a failing current read caught as in show_tables, the run going on
ExtractCurrent_swallow ==
    /\ pc = "extract_current"
    /\ queries' = Append(queries, [table |-> "current",
                                   where |-> Bound(InList(Val(det_map)))])
    /\ \/ /\ IsBound(store.current)
          /\ current' = Bound(SelectIn(Val(store.current), InList(Val(det_map))))
          /\ UNCHANGED error
       \/ /\ ~IsBound(store.current)
          /\ current' = Bound(<<>>)
          /\ error' = OperationalError("current")
    /\ steps' = Append(steps, "ExtractCurrent")
    /\ pc' = "extract_voltage"
    /\ UNCHANGED <<store, entry, held, opened, dump, det_map, voltage, ret,
                   plotargs, fig, shown>>

\* lines 63-69: the current query, filtered on the keys of det_map
ExtractCurrent ==
    /\ pc = "extract_current"
    /\ queries' = Append(queries, [table |-> "current",
                                   where |-> Bound(InList(Val(det_map)))])
    /\ \/ /\ IsBound(store.current)
          /\ current' = Bound(SelectIn(Val(store.current), InList(Val(det_map))))
          /\ steps' = Append(steps, "ExtractCurrent")
          /\ pc' = "extract_voltage"
          /\ UNCHANGED <<held, error>>
       \/ /\ ~IsBound(store.current)
          /\ held' = held - 1
          /\ error' = OperationalError("current")
          /\ pc' = "failed"
          /\ UNCHANGED <<current, steps>>
    /\ UNCHANGED <<store, entry, opened, dump, det_map, voltage, ret, plotargs,
                   fig, shown>>

\* variant: a failing voltage read leaving the connection checked out
ExtractVoltage_leak ==
    /\ pc = "extract_voltage"
    /\ queries' = Append(queries, [table |-> "voltage",
                                   where |-> Bound(InList(Val(det_map)))])
    /\ \/ /\ IsBound(store.voltage)
          /\ voltage' = Bound(SelectIn(Val(store.voltage), InList(Val(det_map))))
          /\ steps' = Append(steps, "ExtractVoltage")
          /\ pc' = "lm_exit"
          /\ UNCHANGED <<held, error>>
       \/ /\ ~IsBound(store.voltage)
          /\ error' = OperationalError("voltage")
          /\ pc' = "failed"
          /\ UNCHANGED <<held, voltage, steps>>
    /\ UNCHANGED <<store, entry, opened, dump, det_map, current, ret, plotargs,
                   fig, shown>>

\* lines 71-77: the voltage query, filtered on the keys of det_map
ExtractVoltage ==
    /\ pc = "extract_voltage"
    /\ queries' = Append(queries, [table |-> "voltage",
                                   where |-> Bound(InList(Val(det_map)))])
    /\ \/ /\ IsBound(store.voltage)
          /\ voltage' = Bound(SelectIn(Val(store.voltage), InList(Val(det_map))))
          /\ steps' = Append(steps, "ExtractVoltage")
          /\ pc' = "lm_exit"
          /\ UNCHANGED <<held, error>>
       \/ /\ ~IsBound(store.voltage)
          /\ held' = held - 1
          /\ error' = OperationalError("voltage")
          /\ pc' = "failed"
          /\ UNCHANGED <<voltage, steps>>
    /\ UNCHANGED <<store, entry, opened, dump, det_map, current, ret, plotargs,
                   fig, shown>>

\* end of the with block of line 59
LmExit ==
    /\ pc = "lm_exit"
    /\ held' = held - 1
    /\ pc' = "convert"
    /\ UNCHANGED <<store, entry, opened, dump, det_map, current, voltage,
                   queries, ret, error, plotargs, fig, shown, steps>>

\* variant: det_map cut down to the identifiers that have current rows
ConvertReturn_prune ==
    /\ pc = "convert"
    /\ current' = Bound(ConvertTimes(Val(current)))
    /\ voltage' = Bound(ConvertTimes(Val(voltage)))
    /\ det_map' = Bound([k \in {r.det_id : r \in Range(Val(current))} |-> Val(det_map)[k]])
    /\ ret' = Bound([current |-> Val(current'), voltage |-> Val(voltage'),
                     det_map |-> Val(det_map')])
    /\ pc' = IF entry = "main" THEN "main_flag" ELSE "done"
    /\ UNCHANGED <<store, entry, held, opened, dump, queries, error,
                   plotargs, fig, shown, steps>>

\* lines 79-82: the time columns are converted in place and the three locals
\* are returned
ConvertReturn ==
    /\ pc = "convert"
    /\ current' = Bound(ConvertTimes(Val(current)))
    /\ voltage' = Bound(ConvertTimes(Val(voltage)))
    /\ ret' = Bound([current |-> Val(current'), voltage |-> Val(voltage'),
                     det_map |-> Val(det_map)])
    /\ pc' = IF entry = "main" THEN "main_flag" ELSE "done"
    /\ UNCHANGED <<store, entry, held, opened, dump, det_map, queries, error,
                   plotargs, fig, shown, steps>>

-----------------------------------------------------------------------------
(* main, lines 151-153, and plot_all, lines 85-135 *)

\* lines 152-153: args.flag and args.downsample are first read here; any int
\* passes argparse's type=int
MainFlag ==
    /\ pc = "main_flag"
    /\ \/ \E d \in Strides :
            /\ plotargs' = Bound([current    |-> Val(ret).current,
                                  voltage    |-> Val(ret).voltage,
                                  det_map    |-> Val(ret).det_map,
                                  downsample |-> d])
            /\ pc' = "plot_current"
       \/ /\ pc' = "done"
          /\ UNCHANGED plotargs
    /\ UNCHANGED <<store, entry, held, opened, dump, det_map, current, voltage,
                   queries, ret, error, fig, shown, steps>>

\* lines 103-114: the loop over the groups of the current frame
PlotCurrent ==
    /\ pc = "plot_current"
    /\ LET a == Val(plotargs)
       IN  fig' = fig \o Traces(a.current, a.det_map, a.downsample, "Current", 1)
    /\ steps' = Append(steps, "ShapeCurrent")
    /\ pc' = "plot_voltage"
    /\ UNCHANGED <<store, entry, held, opened, dump, det_map, current, voltage,
                   queries, ret, error, plotargs, shown>>

\* lines 117-128: the loop over the groups of the voltage frame
PlotVoltage ==
    /\ pc = "plot_voltage"
    /\ LET a == Val(plotargs)
       IN  fig' = fig \o Traces(a.voltage, a.det_map, a.downsample, "Voltage", 2)
    /\ steps' = Append(steps, "ShapeVoltage")
    /\ pc' = "fig_show"
    /\ UNCHANGED <<store, entry, held, opened, dump, det_map, current, voltage,
                   queries, ret, error, plotargs, shown>>

\* lines 130-135: the figure, with the traces added so far, goes to the renderer
FigShow ==
    /\ pc = "fig_show"
    /\ shown' = Bound(fig)
    /\ steps' = Append(steps, "Sink")
    /\ pc' = "done"
    /\ UNCHANGED <<store, entry, held, opened, dump, det_map, current, voltage,
                   queries, ret, error, plotargs, fig>>

Next ==
    \/ ShowConnect
    \/ ShowDump
    \/ ShowExit
    \/ LmConnect
    \/ Resolve
    \/ ExtractCurrent
    \/ ExtractVoltage
    \/ LmExit
    \/ ConvertReturn
    \/ MainFlag
    \/ PlotCurrent
    \/ PlotVoltage
    \/ FigShow

Spec == Init /\ [][Next]_vars

-----------------------------------------------------------------------------
(* plot_all called directly, with any frames, catalog and stride *)

\* rows of a frame as load_measurements returns them
FrameRows == {ConvertTimes(<<r>>)[1] : r \in SampleRows}

DetMaps == UNION {[S -> Names] : S \in SUBSET DetIds}

InitPlot ==
    /\ store = UnopenableStore
    /\ entry = "plot_all"
    /\ pc = "plot_current"
    /\ plotargs \in {Bound(a) : a \in [current    : SeqsUpTo(FrameRows, MaxFrame),
                                       voltage    : SeqsUpTo(FrameRows, MaxVRows),
                                       det_map    : DetMaps,
                                       downsample : Strides]}
    /\ NoRun

NextPlot ==
    \/ PlotCurrent
    \/ PlotVoltage
    \/ FigShow

SpecPlot == InitPlot /\ [][NextPlot]_vars

-----------------------------------------------------------------------------
(* Properties *)

IsPrefix(s, t) == Len(s) <= Len(t) /\ s = SubSeq(t, 1, Len(s))

Pipeline ==
    <<"Resolve", "ExtractCurrent", "ExtractVoltage", "ShapeCurrent", "ShapeVoltage", "Sink">>

DatetimeLE(a, b) == a.day < b.day \/ (a.day = b.day /\ a.sec <= b.sec)

\* the rows of a frame or table that belong to identifier k, in row order
RowsOf(df, k) == SelectSeq(df, LAMBDA r : r.det_id = k)

IdsOf(df) == {df[i].det_id : i \in 1..Len(df)}

NonDecreasing(g) == \A i \in 1..Len(g) : \A j \in i..Len(g) : DatetimeLE(g[i].time, g[j].time)

\* the traces of one subplot row, and the frame they were made of
TracesOfRow(f, row) == SelectSeq(f, LAMBDA t : t.row = row)
FrameOfRow(a, row) == IF row = 1 THEN a.current ELSE a.voltage
PrefixOfRow(row) == IF row = 1 THEN "Current" ELSE "Voltage"

\* C1: whenever load_measurements returns a non-empty det_map, every row of the
\* returned current frame and of the returned voltage frame has a det_id that is
\* a key of the returned det_map.
C1_Containment ==
    (IsBound(ret) /\ DOMAIN Val(ret).det_map # {}) =>
        /\ IdsOf(Val(ret).current) \subseteq DOMAIN Val(ret).det_map
        /\ IdsOf(Val(ret).voltage) \subseteq DOMAIN Val(ret).det_map

\* a run that returned rows although the current table also holds rows of an
\* identifier the non-empty catalog lacks
C1_Witness ==
    /\ IsBound(ret)
    /\ DOMAIN Val(ret).det_map # {}
    /\ Val(ret).current # <<>>
    /\ \E r \in Range(Val(store.current)) : r.det_id \notin DOMAIN Val(ret).det_map

\* C2 (as claimed): in the frames load_measurements returns, the rows of each
\* det_id are in non-decreasing time order, whatever the tables' row order.
C2_Ordered ==
    IsBound(ret) =>
        /\ \A k \in IdsOf(Val(ret).current) : NonDecreasing(RowsOf(Val(ret).current, k))
        /\ \A k \in IdsOf(Val(ret).voltage) : NonDecreasing(RowsOf(Val(ret).voltage, k))

\* C3 (as claimed): with an empty catalog no statement is sent to the current or
\* the voltage table, and the frames returned are empty.
C3_EmptyCatalogNoQuery ==
    (IsBound(det_map) /\ DOMAIN Val(det_map) = {}) =>
        /\ \A i \in 1..Len(queries) : queries[i].table = "detector"
        /\ IsBound(ret) => (Val(ret).current = <<>> /\ Val(ret).voltage = <<>>)

\* C4: for a stride n >= 1, the figure shown holds exactly one trace per det_id
\* of each frame, and the trace of k is the rows of k at positions 0, n, 2n, ...
\* of k's own rows, x and y taken from the same row; for n = 1 x and y are the
\* time and value columns of k's rows, element for element.
C4_Decimation ==
    (IsBound(shown) /\ Val(plotargs).downsample >= 1) =>
        LET a == Val(plotargs)
            n == a.downsample
        IN  \A row \in {1, 2} :
                LET ts == TracesOfRow(Val(shown), row)
                    df == FrameOfRow(a, row)
                IN  /\ {ts[i].det_id : i \in 1..Len(ts)} = IdsOf(df)
                    /\ Len(ts) = Cardinality(IdsOf(df))
                    /\ \A i \in 1..Len(ts) :
                          LET g == RowsOf(df, ts[i].det_id)
                              m == (Len(g) + n - 1) \div n
                          IN  /\ Len(ts[i].x) = m
                              /\ Len(ts[i].y) = m
                              /\ \A j \in 1..m :
                                    /\ ts[i].x[j] = g[(j - 1) * n + 1].time
                                    /\ ts[i].y[j] = g[(j - 1) * n + 1].value
                              /\ n = 1 => /\ ts[i].x = [j \in 1..Len(g) |-> g[j].time]
                                          /\ ts[i].y = [j \in 1..Len(g) |-> g[j].value]

\* a figure shown with stride 2 for a current frame whose rows of identifier 1
\* are separated by a row of another identifier
C4_Witness ==
    /\ IsBound(shown)
    /\ Val(plotargs).downsample = 2
    /\ Len(Val(plotargs).current) = 3
    /\ Val(plotargs).current[1].det_id = 1
    /\ Val(plotargs).current[2].det_id = 2
    /\ Val(plotargs).current[3].det_id = 1

\* C5 (as claimed): plot_all called with a stride below 1 raises a ValueError
\* and hands nothing to the renderer.
C5_InvalidStrideRejected ==
    (IsBound(plotargs) /\ Val(plotargs).downsample < 1) =>
        /\ fig = <<>>
        /\ ~IsBound(shown)
        /\ pc \in {"done", "failed"} => (IsBound(error) /\ Val(error).exc = "ValueError")

\* C6 (as claimed): the name of the trace of k is the catalog name of k, or the
\* string form of k when k is no catalog key.
C6_LabelIsName ==
    \A i \in 1..Len(fig) :
        LET k == fig[i].det_id
            d == Val(plotargs).det_map
        IN  fig[i].name = IF k \in DOMAIN d THEN d[k] ELSE ToString(k)

\* C6 (amended): the name of the trace of k is the kind word of its subplot
\* ("Current" or "Voltage"), a blank, and then the catalog name of k, or the
\* string form of k when k is no catalog key; plot_all raises nothing and every
\* identifier of a frame gets its trace.
C6_LabelPrefixed ==
    /\ \A i \in 1..Len(fig) :
          LET k == fig[i].det_id
              d == Val(plotargs).det_map
          IN  fig[i].name = PrefixOfRow(fig[i].row) \o " " \o
                                (IF k \in DOMAIN d THEN d[k] ELSE ToString(k))
    /\ IsBound(plotargs) => ~IsBound(error)
    /\ IsBound(shown) =>
          \A row \in {1, 2} :
              LET ts == TracesOfRow(Val(shown), row)
              IN  {ts[i].det_id : i \in 1..Len(ts)} = IdsOf(FrameOfRow(Val(plotargs), row))

\* a figure shown with a trace of an identifier the catalog lacks next to a
\* trace of one it has
C6_Witness ==
    /\ IsBound(shown)
    /\ \E i \in 1..Len(fig) : fig[i].det_id \notin DOMAIN Val(plotargs).det_map
    /\ \E i \in 1..Len(fig) : fig[i].det_id \in DOMAIN Val(plotargs).det_map

\* the steps that had completed when a read at `at` raised
StepsBefore(at) ==
    CASE at = "connect"  -> <<>>
      [] at = "detector" -> <<>>
      [] at = "current"  -> <<"Resolve">>
      [] at = "voltage"  -> <<"Resolve", "ExtractCurrent">>

\* C7: the steps of a run are an initial part of Resolve, Extract(Current),
\* Extract(Voltage), Shape(Current), Shape(Voltage), Sink, each at most once; once
\* a store read has raised, the run has stopped with exactly the steps that
\* preceded the failing read, load_measurements has returned nothing, plot_all
\* was not called and the renderer got nothing.
C7_AllOrNothing ==
    /\ IsPrefix(steps, Pipeline)
    /\ IsBound(error) =>
          /\ pc = "failed"
          /\ steps = StepsBefore(Val(error).at)
          /\ ~IsBound(ret)
          /\ ~IsBound(plotargs)
          /\ fig = <<>>
          /\ ~IsBound(shown)
    /\ IsBound(shown) => steps = Pipeline
    /\ IsBound(plotargs) => IsBound(ret)

\* the voltage read raised after the catalog and the current rows had been read
C7_Witness ==
    /\ IsBound(error)
    /\ Val(error).at = "voltage"
    /\ IsBound(det_map)
    /\ IsBound(current)
    /\ Val(current) # <<>>

InWith == {"show_dump", "resolve", "extract_current", "extract_voltage", "lm_exit"}

\* C8: a connection is held only inside the with block of show_tables or of
\* load_measurements, and never more than one; once either function has
\* returned or raised, no connection is held.
C8_Released ==
    /\ held = (IF pc \in InWith THEN 1 ELSE 0)
    /\ opened <= 2
    /\ pc \in {"done", "failed"} => held = 0

\* main acquired a connection in show_tables and another in load_measurements,
\* whose current read then raised
C8_Witness ==
    /\ pc = "failed"
    /\ opened = 2
    /\ held = 0
    /\ Val(error).at = "current"

\* the identifiers of the catalog with at least one row in a table
CatalogIdsWithRows(d, rows) == {k \in DOMAIN d : \E i \in 1..Len(rows) : rows[i].det_id = k}

\* C9: for a stride >= 1, the identifiers with a trace in the figure shown are,
\* for each kind, exactly the catalog identifiers with at least one row in that
\* kind's table, one trace each, and no trace is empty.
C9_AbsentNotEmpty ==
    (IsBound(shown) /\ Val(plotargs).downsample >= 1 /\ entry = "main") =>
        /\ \A row \in {1, 2} :
              LET ts == TracesOfRow(Val(shown), row)
                  tbl == IF row = 1 THEN Val(store.current) ELSE Val(store.voltage)
              IN  /\ {ts[i].det_id : i \in 1..Len(ts)} =
                         CatalogIdsWithRows(Val(ret).det_map, tbl)
                  /\ Len(ts) = Cardinality(CatalogIdsWithRows(Val(ret).det_map, tbl))
        /\ \A i \in 1..Len(Val(shown)) :
              /\ Len(Val(shown)[i].x) >= 1
              /\ Len(Val(shown)[i].y) >= 1

\* a figure shown with stride 2 where one catalog identifier has a single
\* current row and another has none
C9_Witness ==
    /\ IsBound(shown)
    /\ entry = "main"
    /\ Val(plotargs).downsample = 2
    /\ DOMAIN Val(ret).det_map = {1, 2}
    /\ IdsOf(Val(store.current)) = {1, 3}
    /\ Len(RowsOf(Val(store.current), 1)) = 1

\* C10: load_measurements sends the catalog query once, before any other query;
\* the current and the voltage query list exactly the keys of det_map; and the
\* catalog held, returned and plotted is at every later point the one that
\* query produced.
C10_CatalogSnapshot ==
    /\ \A i \in 1..Len(queries) : (queries[i].table = "detector") <=> (i = 1)
    /\ IsBound(det_map) =>
          /\ Len(queries) >= 1
          /\ Val(det_map) = DictOf(Val(store.detector))
          /\ \A i \in 2..Len(queries) : queries[i].where = Bound(DOMAIN Val(det_map))
    /\ (IsBound(current) \/ IsBound(voltage)) => IsBound(det_map)
    /\ IsBound(ret) => Val(ret).det_map = Val(det_map)
    /\ (IsBound(plotargs) /\ entry = "main") => Val(plotargs).det_map = Val(det_map)

\* a run of main that reached the renderer with a catalog of two detectors of
\* which one has no current row
C10_Witness ==
    /\ IsBound(shown)
    /\ entry = "main"
    /\ Len(queries) = 3
    /\ DOMAIN Val(det_map) = {1, 2}
    /\ IdsOf(Val(ret).current) = {2}

====
